---- MODULE Spec2Model ----
(***************************************************************************)
(* Model of stellar-horizon's HTTP client (src/src/client.rs):             *)
(*   - HorizonHttpStream::poll_next, the resumable SSE stream, polled      *)
(*     against a server that keeps an event log and resumes it after the   *)
(*     event named by Last-Event-Id; one step is one pass through the      *)
(*     loop of poll_next, so a call makes as many passes as it needs;      *)
(*   - execute_request, the one-shot request, as a function of what the   *)
(*     transport returns.                                                  *)
(***************************************************************************)
EXTENDS Integers, Sequences, FiniteSets, TLC

\* ------------------------------------------------------------------ bounds
\* Number of frames in the server's event log.
LogLen == 2

\* --------------------------------------------------------------- constants
\* Option::None for last_id and for an SSE frame's id.
NoneId == 0

VARIABLES
    log,        \* the server's event log: the frames a connection's decoder emits, in order
    uriOk,      \* whether request.uri(&client.host) succeeds for this stream's request
    urlOk,      \* whether the http crate accepts that url as the request's uri
    last_id,    \* HorizonHttpStream.last_id
    response,   \* HorizonHttpStream.response: Option<ResponseFuture>
    decoder,    \* HorizonHttpStream.decoder: Option<BoxDecoder>
    panicked,   \* the latest call of poll_next unwound with a panic
    result,     \* what the last call of poll_next returned; Running inside a call
    issued,     \* the request the latest pass of the loop handed to raw_request, if any
    trace,      \* what the latest pass of the loop saw, in order
    prevEv,     \* the last thing the pass before the latest one saw
    firstPass,  \* the latest pass was the first one of its call
    cursorAtCall, \* last_id as the current (or latest) call of poll_next began
    heldAtCall, \* what that call found in the stream: "response", "decoder" or "none"
    yielded,    \* per log position, how many items were yielded for it (saturating at 2)
    lastIdSeen, \* id of the most recent id-carrying message frame a decoder emitted
    firstReq,   \* the first request this stream issued, once there is one
    lastYield,  \* log position of the latest item yielded for a frame, 0 before
    prevYield,  \* log position of the item yielded for a frame before that one
    sameConn,   \* the latest two such items came from the same connection
    fresh,      \* the current connection has not produced an item yet
    cursorBefore, \* last_id as the decoder handed over the latest frame
    req_in,     \* execute_request: the inputs of one call
    req_out,    \* execute_request: what the call did and returned
    pc          \* poll_next: "idle" between calls, "running" inside one,
                \* "blocked" inside one whose println! waits for stdout

streamVars == <<log, uriOk, urlOk, last_id, response, decoder, panicked, result, issued,
                trace, prevEv, firstPass, cursorAtCall, heldAtCall, yielded, lastIdSeen,
                firstReq, lastYield, prevYield, sameConn, fresh, cursorBefore, pc>>
requestVars == <<req_in, req_out>>
vars == <<log, uriOk, urlOk, last_id, response, decoder, panicked, result, issued,
          trace, prevEv, firstPass, cursorAtCall, heldAtCall, yielded, lastIdSeen,
          firstReq, lastYield, prevYield, sameConn, fresh, cursorBefore, pc,
          req_in, req_out>>

\* ------------------------------------------------------- the server's log
\* A decoded frame (async_sse::Event). kind "Message" carries a name, an
\* optional id and a payload that deserializes as R::Resource or does not;
\* kind "Retry" is a retry hint. The id of the frame at position p, when it
\* has one, is p (a legal header value) or -p (a string that is no legal
\* HTTP header value, such as one holding a control character). The payload
\* of a frame named otherwise is never deserialized.
RetryFrame == [kind |-> "Retry", name |-> "", id |-> NoneId, json_ok |-> FALSE]

FramesAt(p) ==
    {RetryFrame}
    \cup [kind : {"Message"}, name : {"foo"}, id : {NoneId, p, -p}, json_ok : {FALSE}]
    \cup [kind : {"Message"}, name : {"message"}, id : {NoneId, p, -p}, json_ok : BOOLEAN]

\* The logs of n frames, the frame at each position p taken from FramesAt(p).
RECURSIVE LogsOfLen(_)
LogsOfLen(n) ==
    IF n = 0
    THEN {<<>>}
    ELSE {Append(l, f) : l \in LogsOfLen(n - 1), f \in FramesAt(n)}

Logs == LogsOfLen(LogLen)

\* The position of the event whose id is `id`, 0 when there is none.
IdPos(l, id) ==
    IF \E p \in DOMAIN l : l[p].kind = "Message" /\ l[p].id = id
    THEN CHOOSE p \in DOMAIN l : l[p].kind = "Message" /\ l[p].id = id
    ELSE 0

\* Where the server starts a connection whose request carried Last-Event-Id
\* `lei` (NoneId: no such header): right after that event, else at the start.
ResumePos(l, lei) == IF lei = NoneId THEN 1 ELSE IdPos(l, lei) + 1

\* application payload frames
IsMessageEvent(f) == f.kind = "Message" /\ f.name = "message"

\* ------------------------------------------------------- status classes
\* http::StatusCode::is_success and is_client_error, as the code calls them.
is_success(status) == 200 <= status /\ status < 300
is_client_error(status) == 400 <= status /\ status < 500

\* The statuses a server answers a stream request with.
StreamStatuses == {200, 404, 503}

\* ------------------------------------------------------------- requests
\* An outgoing hyper::Request: the method and the headers the code sets
\* (last_event_id = NoneId: the request has no Last-Event-Id header).
NoRequest == [method |-> "", x_client_name |-> FALSE, x_client_version |-> FALSE,
              accept |-> "", last_event_id |-> NoneId, body |-> ""]

\* HorizonHttpClient::request_builder: the default headers, no method chosen yet.
request_builder ==
    [NoRequest EXCEPT !.x_client_name = TRUE, !.x_client_version = TRUE]

\* HorizonHttpClient::get
get == [request_builder EXCEPT !.method = "GET"]

\* http::HeaderValue accepts the string: an id p > 0 stands for a legal
\* header value, an id -p for one the http crate rejects.
HeaderValueOk(id) == id > 0

\* Mutant: the reconnect request never carries Last-Event-Id.
BuildStreamRequest_NoLastEventId(cursor) ==
    [get EXCEPT !.accept = "text/event-stream", !.body = "empty"]

\* poll_next, lines 153-159: the request of a (re)connection for a cursor.
BuildStreamRequest(cursor) ==
    LET withAccept == [get EXCEPT !.accept = "text/event-stream"]
        withId == IF cursor # NoneId
                  THEN [withAccept EXCEPT !.last_event_id = cursor]
                  ELSE withAccept
    IN  [withId EXCEPT !.body = "empty"]

\* request_builder.body(..)? fails when the builder holds an error: the uri
\* was rejected (line 81) or a header could not be set (line 156).
BuildOk(url_ok, cursor) == url_ok /\ (cursor = NoneId \/ HeaderValueOk(cursor))

\* ------------------------------------------------- the stream's fields
NoResponse == [some |-> FALSE, req |-> NoRequest]
SomeResponse(req) == [some |-> TRUE, req |-> req]
\* A decoder over the body of a connection: `next` is the log position of
\* the frame it emits next.
NoDecoder == [some |-> FALSE, next |-> 0]
SomeDecoder(n) == [some |-> TRUE, next |-> n]

\* ------------------------------------------------- poll_next's results
NotPolled == [kind |-> "NotPolled", err |-> "", pos |-> 0]
\* the call is inside its loop and has not returned
Running == [kind |-> "Running", err |-> "", pos |-> 0]
Pending == [kind |-> "Pending", err |-> "", pos |-> 0]
\* Poll::Ready(Some(Ok(item))) for the frame at log position p
ReadyOk(p) == [kind |-> "Ok", err |-> "", pos |-> p]
\* Poll::Ready(Some(Err(e))); p is the frame the error is about, 0 if none
ReadyErr(e, p) == [kind |-> "Err", err |-> e, pos |-> p]
\* Poll::Ready(None)
ReadyNone == [kind |-> "End", err |-> "", pos |-> 0]
\* assert! or println! panicked: the call unwinds
Panic == [kind |-> "Panic", err |-> "", pos |-> 0]

\* How a pass through the loop ends: the call returns (or unwinds), the loop
\* goes round, or the pass waits inside println! for stdout.
Return(st, ret) == [done |-> TRUE, blocked |-> FALSE, st |-> st, ret |-> ret]
Continue(st) == [done |-> FALSE, blocked |-> FALSE, st |-> st, ret |-> NotPolled]
Block(st) == [done |-> FALSE, blocked |-> TRUE, st |-> st, ret |-> NotPolled]

\* What a call of poll_next met, as the transport and the server saw it:
\*   "req" (arg: index in issued), "resp" (arg: the status), "frame" (arg: the
\*   log position); and, with the cursor of that moment as arg, "resp_pending",
\*   "resp_error", "dec_pending", "dec_error", "closed".
Ev(e, a) == [ev |-> e, arg |-> a]
NoEv == Ev("none", 0)
Saw(s, e, a) == [s EXCEPT !.trace = Append(@, Ev(e, a))]

\* ------------------------------------------- poll_next, one loop pass
\* Mutant: the guard looks at the decoder only, so a request is issued over a
\* response that is still pending.
Connect_IgnoresPendingResponse(s, uri_ok, url_ok) ==
    IF ~s.decoder.some
    THEN IF ~uri_ok
         THEN Return(s, ReadyErr("InvalidHost", 0))
         ELSE IF ~BuildOk(url_ok, s.last_id)
         THEN Return(s, ReadyErr("HttpError", 0))
         ELSE LET req == BuildStreamRequest(s.last_id)
                  t == [s EXCEPT !.response = SomeResponse(req),
                                 !.issued = Append(@, [req |-> req,
                                                       cursor |-> s.last_id,
                                                       seen |-> s.lastIdSeen])]
              IN  Continue(Saw(t, "req", Len(t.issued)))
    ELSE Continue(s)

\* Lines 151-162: with neither response nor decoder, build and issue the
\* request. The two `?` return the error as an item.
Connect(s, uri_ok, url_ok) ==
    IF ~s.response.some /\ ~s.decoder.some
    THEN IF ~uri_ok
         THEN Return(s, ReadyErr("InvalidHost", 0))
         ELSE IF ~BuildOk(url_ok, s.last_id)
         THEN Return(s, ReadyErr("HttpError", 0))
         ELSE LET req == BuildStreamRequest(s.last_id)
                  t == [s EXCEPT !.response = SomeResponse(req),
                                 !.issued = Append(@, [req |-> req,
                                                       cursor |-> s.last_id,
                                                       seen |-> s.lastIdSeen])]
              IN  Continue(Saw(t, "req", Len(t.issued)))
    ELSE Continue(s)

\* Lines 166-169: the response is not there yet.
OnResponsePending(s) == Return(s, Pending)

\* Mutant: the failed response future is put back.
OnTransportError_KeepsResponse(s) == Return(s, ReadyErr("HyperError", 0))

\* Lines 170-172: the transport failed; the response was taken.
OnTransportError(s) ==
    Return([s EXCEPT !.response = NoResponse], ReadyErr("HyperError", 0))

\* Lines 173-183: the response arrived.
OnResponse(s, l, status) ==
    LET t == Saw([s EXCEPT !.response = NoResponse], "resp", status)
    IN  IF ~is_success(status)
        THEN Return(t, Panic)
        ELSE Continue([t EXCEPT
                 !.decoder = SomeDecoder(ResumePos(l, s.response.req.last_event_id)),
                 !.fresh = TRUE])

\* Lines 164-185: every outcome of polling the response future.
AwaitResponse(s, l) ==
    IF s.response.some
    THEN {OnResponsePending(Saw(s, "resp_pending", s.last_id)),
          OnTransportError(Saw(s, "resp_error", s.last_id))}
         \cup {OnResponse(s, l, status) : status \in StreamStatuses}
    ELSE {Continue(s)}

\* Mutant: the decoder that was taken is not put back.
OnDecoderPending_DropsDecoder(s) ==
    Return([s EXCEPT !.decoder = NoDecoder], Pending)

\* Lines 189-192: no complete frame yet.
OnDecoderPending(s) == Return(s, Pending)

\* Line 193: the body ended; the decoder was taken and is not put back.
OnDecoderExhausted(s) == Continue([s EXCEPT !.decoder = NoDecoder])

\* Mutant: a decode error also forgets the cursor.
OnDecodeError_ResetsCursor(s) ==
    Return([s EXCEPT !.decoder = NoDecoder, !.last_id = NoneId],
           ReadyErr("SSEDecoderError", 0))

\* Lines 194-197: the decoder reports an error.
OnDecodeError(s) ==
    Return([s EXCEPT !.decoder = NoDecoder], ReadyErr("SSEDecoderError", 0))

\* An item for the frame at log position p leaves poll_next.
Yield(s, p, ret) ==
    Return([s EXCEPT !.prevYield = s.lastYield, !.lastYield = p,
                     !.sameConn = ~s.fresh, !.fresh = FALSE], ret)

\* Mutant: the cursor is never moved.
UpdateCursor_Never(s, f) == s

\* Mutant: the cursor moves only for a frame that is handed over as Ok(item).
UpdateCursor_OnlyIfYieldedOk(s, f) ==
    IF f.id # NoneId /\ f.name = "message" /\ f.json_ok
    THEN [s EXCEPT !.last_id = f.id]
    ELSE s

\* Mutant: only a frame named "message" moves the cursor.
UpdateCursor_OnlyForMessageName(s, f) ==
    IF f.id # NoneId /\ f.name = "message"
    THEN [s EXCEPT !.last_id = f.id]
    ELSE s

\* Mutant: a message frame without an id clears the cursor.
UpdateCursor_ClearsWhenNoId(s, f) == [s EXCEPT !.last_id = f.id]

\* Lines 202-204: a message frame's id, when it has one, becomes the cursor.
UpdateCursor(s, f) ==
    IF f.id # NoneId THEN [s EXCEPT !.last_id = f.id] ELSE s

\* Mutant: a payload that does not deserialize is passed over.
DeliverMessage_SwallowJsonError(s, f, p) ==
    IF f.name = "message" /\ f.json_ok
    THEN Yield(s, p, ReadyOk(p))
    ELSE Continue(s)

\* Mutant: a payload that does not deserialize costs the connection.
DeliverMessage_JsonErrorDropsDecoder(s, f, p) ==
    IF f.name = "message"
    THEN IF f.json_ok
         THEN Yield(s, p, ReadyOk(p))
         ELSE Yield([s EXCEPT !.decoder = NoDecoder], p, ReadyErr("JsonError", p))
    ELSE Continue(s)

\* Lines 205-209: a frame named "message" is deserialized and yielded, `?`
\* turning a failure into an error item; any other name is passed over.
DeliverMessage(s, f, p) ==
    IF f.name = "message"
    THEN IF f.json_ok
         THEN Yield(s, p, ReadyOk(p))
         ELSE Yield(s, p, ReadyErr("JsonError", p))
    ELSE Continue(s)

\* Lines 211-213: a retry hint is printed with println!, which returns, or
\* panics when stdout cannot be written, or waits while stdout is a full
\* pipe; the decoder has been put back before.
OnRetry(s) == {Continue(s), Return(s, Panic), Block(s)}

\* Lines 198-215: the decoder emitted the frame f of log position p and is
\* put back; a retry hint is printed and passed over.
OnEvent(s, f, p) ==
    LET kept == [s EXCEPT !.decoder = SomeDecoder(p + 1)]
    IN  IF f.kind = "Message"
        THEN {DeliverMessage(UpdateCursor(kept, f), f, p)}
        ELSE OnRetry(kept)

\* The decoder hands over the next frame of the body: the frame at log
\* position p, which the server has thereby delivered.
EmitFrame(s, l, p) ==
    LET f == l[p]
        seen == IF f.kind = "Message" /\ f.id # NoneId THEN f.id ELSE s.lastIdSeen
    IN  OnEvent(Saw([s EXCEPT !.lastIdSeen = seen, !.cursorBefore = s.last_id],
                    "frame", p), f, p)

\* Lines 187-217: every outcome of polling the decoder.
PollDecoder(s, l) ==
    IF s.decoder.some
    THEN {OnDecoderPending(Saw(s, "dec_pending", s.last_id)),
          OnDecodeError(Saw(s, "dec_error", s.last_id))}
         \cup {OnDecoderExhausted(Saw(s, "closed", s.last_id))}
         \cup (IF s.decoder.next \in DOMAIN l
               THEN EmitFrame(s, l, s.decoder.next)
               ELSE {})
    ELSE {Continue(s)}

\* One pass through the body of the loop, lines 151-217.
LoopBody(s, l, uri_ok, url_ok) ==
    LET c == Connect(s, uri_ok, url_ok)
    IN  IF c.done
        THEN {c}
        ELSE UNION {IF r.done THEN {r} ELSE PollDecoder(r.st, l) :
                        r \in AwaitResponse(c.st, l)}

\* The stream as a pass of the loop finds it.
Entry == [last_id |-> last_id, response |-> response, decoder |-> decoder,
          lastIdSeen |-> lastIdSeen, lastYield |-> lastYield,
          prevYield |-> prevYield, sameConn |-> sameConn, fresh |-> fresh,
          cursorBefore |-> cursorBefore,
          issued |-> <<>>, trace |-> <<>>]

\* What the next pass of the loop can do, from the stream as it is.
loop_pass_outcomes == LoopBody(Entry, log, uriOk, urlOk)

Bump(n) == IF n < 2 THEN n + 1 ELSE 2

\* What the stream holds.
Held == IF response.some THEN "response"
        ELSE IF decoder.some THEN "decoder" ELSE "none"

\* One pass through the body of the loop of poll_next (lines 150-218): a
\* pass that returns or unwinds ends the call, any other leads to the next
\* pass, at once or when println! has returned. A stream whose call has
\* unwound is polled again like any other, as its fields were left.
Pass ==
    /\ \E b \in loop_pass_outcomes :
          /\ pc' = IF b.done THEN "idle" ELSE IF b.blocked THEN "blocked" ELSE "running"
          /\ result' = IF b.done THEN b.ret ELSE Running
          /\ panicked' = (b.done /\ b.ret.kind = "Panic")
          /\ last_id' = b.st.last_id
          /\ response' = b.st.response
          /\ decoder' = b.st.decoder
          /\ lastIdSeen' = b.st.lastIdSeen
          /\ issued' = b.st.issued
          /\ trace' = b.st.trace
          /\ prevEv' = IF trace = <<>> THEN NoEv ELSE trace[Len(trace)]
          /\ firstPass' = (pc = "idle")
          /\ cursorAtCall' = IF pc = "idle" THEN last_id ELSE cursorAtCall
          /\ heldAtCall' = IF pc = "idle" THEN Held ELSE heldAtCall
          /\ lastYield' = b.st.lastYield
          /\ prevYield' = b.st.prevYield
          /\ sameConn' = b.st.sameConn
          /\ fresh' = b.st.fresh
          /\ cursorBefore' = b.st.cursorBefore
          /\ firstReq' = IF ~firstReq.some /\ b.st.issued # <<>>
                         THEN SomeResponse(b.st.issued[1].req)
                         ELSE firstReq
          /\ yielded' = IF b.done /\ b.ret.pos # 0
                        THEN [yielded EXCEPT ![b.ret.pos] = Bump(@)]
                        ELSE yielded
    /\ UNCHANGED <<log, uriOk, urlOk>>
    /\ UNCHANGED requestVars

\* HorizonHttpStream::poll_next is called: the first pass of its loop.
PollNext == pc = "idle" /\ Pass

\* The loop of the running call goes round (line 150): its next pass.
LoopPass == pc = "running" /\ Pass

\* The println! of line 212 that waited for stdout comes back: it has
\* written and the loop goes round, or the write failed and it panics.
PrintlnUnblocks ==
    /\ pc = "blocked"
    /\ \E written \in BOOLEAN :
          /\ pc' = IF written THEN "running" ELSE "idle"
          /\ result' = IF written THEN Running ELSE Panic
          /\ panicked' = ~written
    /\ UNCHANGED <<log, uriOk, urlOk, last_id, response, decoder, issued, trace,
                   prevEv, firstPass, cursorAtCall, heldAtCall, yielded, lastIdSeen,
                   firstReq, lastYield, prevYield, sameConn, fresh, cursorBefore>>
    /\ UNCHANGED requestVars

\* ------------------------------------------------------ execute_request
\* The status codes http::StatusCode can hold.
Statuses == 100..999

\* A response body: a JSON document of the request's declared response type,
\* one of the HorizonError schema, or bytes that are neither.
Bodies == {"resource", "horizon_error", "garbage"}

\* serde_json::from_slice::<R::Response> and ::<HorizonError>
DecodesAsResponse(body) == body = "resource"
DecodesAsHorizonError(body) == body = "horizon_error"

\* What one call of execute_request is given: the request (is_post, whether
\* its uri resolves and the http request builds) and what the transport
\* does with it (fails, or answers with a status and a body that can or
\* cannot be read to its end).
RequestInputs ==
    [called : {TRUE}, is_post : BOOLEAN, uri_ok : BOOLEAN, build_ok : BOOLEAN,
     transport_ok : BOOLEAN, status : Statuses, body_ok : BOOLEAN, body : Bodies]

NoCall == [called |-> FALSE]

Outcome(sent, req, read, kind, err, payload) ==
    [called |-> TRUE, sent |-> sent, request |-> req, body_read |-> read,
     kind |-> kind, err |-> err, payload |-> payload]

\* Mutant: every status that is no success is handled as a client error.
classify_NoServerError(in, req) ==
    IF is_success(in.status)
    THEN IF ~in.body_ok
         THEN Outcome(1, req, TRUE, "Err", "HyperError", "")
         ELSE IF ~DecodesAsResponse(in.body)
         THEN Outcome(1, req, TRUE, "Err", "JsonError", "")
         ELSE Outcome(1, req, TRUE, "Ok", "", in.body)
    ELSE IF ~in.body_ok
         THEN Outcome(1, req, TRUE, "Err", "HyperError", "")
         ELSE IF ~DecodesAsHorizonError(in.body)
         THEN Outcome(1, req, TRUE, "Err", "JsonError", "")
         ELSE Outcome(1, req, TRUE, "Err", "HorizonRequestError", in.body)

\* Lines 130-140: the outcome for a response that arrived.
classify(in, req) ==
    IF is_success(in.status)
    THEN IF ~in.body_ok
         THEN Outcome(1, req, TRUE, "Err", "HyperError", "")
         ELSE IF ~DecodesAsResponse(in.body)
         THEN Outcome(1, req, TRUE, "Err", "JsonError", "")
         ELSE Outcome(1, req, TRUE, "Ok", "", in.body)
    ELSE IF is_client_error(in.status)
    THEN IF ~in.body_ok
         THEN Outcome(1, req, TRUE, "Err", "HyperError", "")
         ELSE IF ~DecodesAsHorizonError(in.body)
         THEN Outcome(1, req, TRUE, "Err", "JsonError", "")
         ELSE Outcome(1, req, TRUE, "Err", "HorizonRequestError", in.body)
    ELSE Outcome(1, req, FALSE, "Err", "HorizonServerError", "")

\* Mutant: the method is never set, so a POST request leaves as a GET.
http_request_AlwaysGet(in) ==
    [request_builder EXCEPT !.method = "GET", !.body = "empty"]

\* Lines 117-126: the request of a call, POST or GET, with an empty body.
http_request(in) ==
    LET http_method == IF in.is_post THEN "POST" ELSE "GET"
    IN  [request_builder EXCEPT !.method = http_method, !.body = "empty"]

\* execute_request, lines 116-141: what the call returns.
execute_request(in) ==
    IF ~in.uri_ok
    THEN Outcome(0, NoRequest, FALSE, "Err", "InvalidHost", "")
    ELSE IF ~in.build_ok
    THEN Outcome(0, NoRequest, FALSE, "Err", "HttpError", "")
    ELSE IF ~in.transport_ok
    THEN Outcome(1, http_request(in), FALSE, "Err", "HyperError", "")
    ELSE classify(in, http_request(in))

\* The call suspended at line 128: the request is sent, no response yet.
AwaitingResponse(req) == Outcome(1, req, FALSE, "AwaitingResponse", "", "")
\* The call suspended at line 131 or 135: the body is being read.
ReadingBody(req) == Outcome(1, req, TRUE, "ReadingBody", "", "")

\* The call has returned.
Returned(out) == out.called /\ out.kind \in {"Ok", "Err"}

\* HorizonClient::request, first poll of the future: lines 116-128 up to
\* the .await. The `?` of uri() and of body() return at once; otherwise the
\* request is handed to the transport and the call suspends. (A later poll
\* that finds nothing ready changes nothing; a future that is dropped takes
\* no further step.)
ExecuteRequest ==
    /\ req_in.called
    /\ ~req_out.called
    /\ req_out' = IF ~req_in.uri_ok \/ ~req_in.build_ok
                  THEN execute_request(req_in)
                  ELSE AwaitingResponse(http_request(req_in))
    /\ UNCHANGED req_in
    /\ UNCHANGED streamVars

\* The transport is done (line 128 resumes): it failed, or the response is
\* there and its status decides (lines 130, 134, 138) whether a body is read.
ResponseReady ==
    /\ req_out.called
    /\ req_out.kind = "AwaitingResponse"
    /\ LET out == execute_request(req_in)
       IN  req_out' = IF ~req_in.transport_ok \/ ~out.body_read
                      THEN out
                      ELSE ReadingBody(req_out.request)
    /\ UNCHANGED req_in
    /\ UNCHANGED streamVars

\* to_bytes is done (line 131 or 135 resumes): the body is deserialized and
\* the call returns.
BodyReady ==
    /\ req_out.called
    /\ req_out.kind = "ReadingBody"
    /\ req_out' = execute_request(req_in)
    /\ UNCHANGED req_in
    /\ UNCHANGED streamVars

\* Mutant: stream() already issues the first request.
FreshStream_Eager ==
    /\ last_id = NoneId
    /\ response = SomeResponse(BuildStreamRequest(NoneId))
    /\ decoder = NoDecoder
    /\ panicked = FALSE
    /\ result = NotPolled
    /\ issued = <<>>
    /\ trace = <<>>
    /\ prevEv = NoEv
    /\ firstPass = FALSE
    /\ cursorAtCall = NoneId
    /\ heldAtCall = "none"
    /\ pc = "idle"
    /\ yielded = [p \in 1..LogLen |-> 0]
    /\ lastIdSeen = NoneId
    /\ firstReq = SomeResponse(BuildStreamRequest(NoneId))
    /\ lastYield = 0
    /\ prevYield = 0
    /\ sameConn = FALSE
    /\ fresh = TRUE
    /\ cursorBefore = NoneId

\* HorizonHttpClient::stream, lines 102-113: a fresh stream, nothing sent.
FreshStream ==
    /\ last_id = NoneId
    /\ response = NoResponse
    /\ decoder = NoDecoder
    /\ panicked = FALSE
    /\ result = NotPolled
    /\ issued = <<>>
    /\ trace = <<>>
    /\ prevEv = NoEv
    /\ firstPass = FALSE
    /\ cursorAtCall = NoneId
    /\ heldAtCall = "none"
    /\ pc = "idle"
    /\ yielded = [p \in 1..LogLen |-> 0]
    /\ lastIdSeen = NoneId
    /\ firstReq = NoResponse
    /\ lastYield = 0
    /\ prevYield = 0
    /\ sameConn = FALSE
    /\ fresh = TRUE
    /\ cursorBefore = NoneId

InitStream ==
    /\ log \in Logs
    /\ uriOk \in BOOLEAN
    /\ urlOk \in BOOLEAN
    /\ FreshStream

Init ==
    /\ InitStream
    /\ req_in = NoCall
    /\ req_out = NoCall

Next == PollNext \/ LoopPass \/ PrintlnUnblocks

Spec == Init /\ [][Next]_vars

\* The same with what the code's scheduling gives: a call that is running
\* and not waiting inside println! goes on to the next pass of its loop (weak
\* fairness of LoopPass, which is not enabled while the call is blocked), and
\* a println! that waits for stdout comes back in the end (stdout is drained
\* or closed). Nothing makes the consumer call poll_next again.
SpecStep ==
    Init /\ [][Next]_vars /\ WF_vars(LoopPass) /\ WF_vars(PrintlnUnblocks)

\* One-shot requests: every input of execute_request, the stream left alone.
InitRequest ==
    /\ log = [p \in 1..LogLen |-> RetryFrame]
    /\ uriOk = TRUE
    /\ urlOk = TRUE
    /\ FreshStream
    /\ req_in \in RequestInputs
    /\ req_out = NoCall

NextRequest == ExecuteRequest \/ ResponseReady \/ BodyReady

SpecRequest == InitRequest /\ [][NextRequest]_vars

\* ===================================================================
\* Properties of the stream
\* ===================================================================
Positions == 1..LogLen
Last(seq) == seq[Len(seq)]

\* C1. At-least-once delivery: the stream never skips an event. Whenever an
\* item (Ok or Err) has been yielded for the frame at log position n, an item
\* has been yielded for every "message" event that precedes it in the log,
\* whatever closes, transport errors and decode errors came in between.
C1_NoEventSkipped ==
    \A n \in Positions :
        yielded[n] > 0 =>
            \A m \in 1..(n - 1) : IsMessageEvent(log[m]) => yielded[m] > 0

\* The second event of the log is yielded on another connection than the
\* first one: the stream has resumed after a reconnect.
C1_Witness ==
    /\ IsMessageEvent(log[1]) /\ IsMessageEvent(log[2])
    /\ prevYield = 1 /\ lastYield = 2 /\ ~sameConn
    /\ yielded[1] > 0 /\ yielded[2] > 0

\* C2. Every request the stream issues is a GET with Accept:
\* text/event-stream, and carries Last-Event-Id exactly when the cursor is
\* set as the request is built, with the cursor as its value; the first
\* request carries none, and a request issued after an id-carrying event was
\* received carries the id of the latest such event.
C2_RequestHeaders ==
    /\ \A i \in DOMAIN issued :
          LET e == issued[i]
          IN  /\ e.req.method = "GET"
              /\ e.req.accept = "text/event-stream"
              /\ (e.req.last_event_id # NoneId) <=> (e.cursor # NoneId)
              /\ e.req.last_event_id = e.cursor
              /\ e.req.last_event_id = e.seen
    /\ firstReq.some =>
          /\ firstReq.req.method = "GET"
          /\ firstReq.req.accept = "text/event-stream"
          /\ firstReq.req.last_event_id = NoneId

\* A reconnect request that carries the id of the event at position 1,
\* after a first request that carried none.
C2_Witness ==
    /\ firstReq.some /\ firstReq.req.last_event_id = NoneId
    /\ \E i \in DOMAIN issued :
          /\ issued[i].req.last_event_id = 1
          /\ issued[i].seen = 1

\* C3. Ordering. A "message" frame is yielded in the very pass that decodes
\* it, before any later frame is decoded, and a decoder hands over the frames
\* of its connection one by one in log order, so two items of one connection
\* leave in the order the server emitted their frames; and when an item goes
\* back in the log with respect to the item before it, every frame from it up
\* to that earlier item carries no id: the stream goes back only over frames
\* the server resends after the event named by Last-Event-Id.
C3_Ordering ==
    /\ \A i \in DOMAIN trace :
          (trace[i].ev = "frame" /\ IsMessageEvent(log[trace[i].arg]))
              => (i = Len(trace) /\ result.pos = trace[i].arg)
    /\ \A i \in DOMAIN trace : trace[i].ev = "frame" => i = Len(trace)
    /\ (trace # <<>> /\ trace[1].ev = "frame" /\ prevEv.ev = "frame")
          => trace[1].arg = prevEv.arg + 1
    /\ sameConn => prevYield < lastYield
    /\ (lastYield # 0 /\ prevYield >= lastYield) =>
          \A k \in lastYield..prevYield : log[k].id = NoneId

\* After items for positions 1 and 2, a reconnect made the stream yield
\* position 1 again.
C3_Witness ==
    /\ prevYield = 2 /\ lastYield = 1 /\ ~sameConn
    /\ yielded[1] = 2 /\ yielded[2] > 0

\* C4 as stated: no event of the log is yielded to the consumer more than
\* once (read for the events that are handed over as Ok(item), those whose
\* payload deserializes).
C4_NoDuplicates == \A p \in Positions : log[p].json_ok => yielded[p] <= 1

\* C4, amended: no event of the log that carries an id is yielded more than
\* once; only events without an id are yielded again after a reconnect.
C4_NoDuplicateOfIdEvents ==
    \A p \in Positions : log[p].id # NoneId => yielded[p] <= 1

\* The event at position 1 carries an id and was yielded; a reconnect
\* carried that id and the stream went on with the event at position 2.
C4_Witness ==
    /\ log[1].id = 1 /\ yielded[1] = 1
    /\ result = ReadyOk(2)
    /\ \E i \in DOMAIN issued : issued[i].req.last_event_id = 1

\* C5 as stated: frames that are no application message are transparent.
\* No item is ever yielded for a frame whose name is not "message" or for a
\* retry hint; after such a frame the call goes on (it neither returns nor
\* unwinds): the same decoder is kept at the next frame of the same
\* connection, it is what the next pass polls, and that pass issues no
\* request.
C5_OtherFramesTransparent ==
    /\ result.pos # 0 => IsMessageEvent(log[result.pos])
    /\ \A p \in Positions : ~IsMessageEvent(log[p]) => yielded[p] = 0
    /\ \A i \in DOMAIN trace :
          (trace[i].ev = "frame" /\ ~IsMessageEvent(log[trace[i].arg])) =>
              /\ i = Len(trace)
              /\ pc # "idle" /\ result = Running /\ ~panicked
              /\ decoder = SomeDecoder(trace[i].arg + 1) /\ ~response.some
              /\ \A o \in loop_pass_outcomes :
                    /\ o.st.issued = <<>>
                    /\ Len(o.st.trace) = 1
                    /\ o.st.trace[1].ev \in {"frame", "dec_pending", "closed", "dec_error"}
                    /\ o.st.trace[1].ev = "frame" =>
                          o.st.trace[1].arg = trace[i].arg + 1
                    /\ o.st.trace[1].ev = "dec_pending" =>
                          o.st.decoder = SomeDecoder(trace[i].arg + 1)

\* C6 as stated: the stream never ends. poll_next never returns
\* Poll::Ready(None); a connection that closed cleanly causes a reconnect
\* (the call does not return, and its next pass issues a request); and after
\* an error item the stream can be polled again and still does not end.
C6_NeverEnds ==
    /\ result.kind # "End"
    /\ \A i \in DOMAIN trace :
          trace[i].ev = "closed" =>
              /\ i = Len(trace)
              /\ pc = "running" /\ result = Running
              /\ ~response.some /\ ~decoder.some
              /\ loop_pass_outcomes # {}
              /\ \A o \in loop_pass_outcomes :
                    o.st.issued # <<>> /\ o.st.trace[1] = Ev("req", 1)
    /\ result.kind = "Err" =>
          /\ loop_pass_outcomes # {}
          /\ \A o \in loop_pass_outcomes : o.ret.kind # "End"

\* C7. Transport failure while awaiting the response: the call yields the
\* transport error, the stream then holds neither response nor decoder, the
\* cursor is the one it had as the failure was met, and the next call begins
\* by issuing a new request that carries this cursor.
C7_TransportFailure ==
    result = ReadyErr("HyperError", 0) =>
        /\ ~response.some /\ ~decoder.some
        /\ Last(trace) = Ev("resp_error", last_id)
        /\ loop_pass_outcomes # {}
        /\ \A o \in loop_pass_outcomes :
              /\ o.st.trace[1] = Ev("req", 1)
              /\ o.st.issued[1].cursor = last_id
              /\ o.st.issued[1].req.last_event_id = last_id

\* The transport failed on a reconnect that carried a cursor.
C7_Witness ==
    /\ result = ReadyErr("HyperError", 0)
    /\ last_id # NoneId
    /\ lastYield # 0

\* C8 as stated: on a decode error the call yields Err(SSEDecoderError), the
\* stream holds neither response nor decoder, the cursor is unchanged, and
\* the next call issues a new request.
C8_DecodeErrorReconnects ==
    result = ReadyErr("SSEDecoderError", 0) =>
        /\ ~response.some /\ ~decoder.some
        /\ Last(trace) = Ev("dec_error", last_id)
        /\ loop_pass_outcomes # {}
        /\ \A o \in loop_pass_outcomes :
              /\ o.st.issued # <<>>
              /\ o.st.trace[1] = Ev("req", 1)

\* C9 as stated: a response with a non-success status makes poll_next yield
\* a ServerError item, without a panic.
C9_NonSuccessYieldsServerError ==
    \A i \in DOMAIN trace :
        (trace[i].ev = "resp" /\ ~(trace[i].arg \in 200..299)) =>
            /\ ~panicked
            /\ result = ReadyErr("HorizonServerError", 0)

\* C12. For every event E yielded as Ok(item): right after the yield the
\* cursor is E's id if E carries one, and otherwise the value the cursor had
\* just before E was processed (as the decoder handed E over).
C12_CursorAfterYield ==
    result.kind = "Ok" =>
        LET E == log[result.pos]
        IN  /\ Last(trace) = Ev("frame", result.pos)
            /\ E.id # NoneId => last_id = E.id
            /\ E.id = NoneId => last_id = cursorBefore

\* An event without an id is yielded while the cursor is set: it stays.
C12_Witness ==
    /\ result.kind = "Ok"
    /\ log[result.pos].id = NoneId
    /\ cursorBefore # NoneId /\ last_id = cursorBefore

\* C13. Streams are lazy: a stream that was created and not polled yet has
\* no cursor, no pending response and no decoder, and has sent no request;
\* the first request is issued by the first call of poll_next, as the first
\* thing it does when the uri resolves and the request builds, and carries
\* no Last-Event-Id.
C13_LazyStream ==
    /\ result = NotPolled =>
          /\ last_id = NoneId /\ response = NoResponse /\ decoder = NoDecoder
          /\ ~firstReq.some /\ issued = <<>> /\ trace = <<>>
          /\ pc = "idle"
          /\ \A o \in loop_pass_outcomes :
                IF uriOk /\ urlOk
                THEN /\ o.st.trace[1] = Ev("req", 1)
                     /\ o.st.issued[1].req = BuildStreamRequest(NoneId)
                ELSE /\ o.st.issued = <<>>
                     /\ o.ret = ReadyErr(IF uriOk THEN "HttpError" ELSE "InvalidHost", 0)
    /\ firstReq.some => result # NotPolled

\* A stream just created, whose first poll will issue the first request.
C13_Witness ==
    /\ result = NotPolled /\ uriOk /\ urlOk
    /\ ~response.some /\ ~decoder.some /\ ~firstReq.some
    /\ \E o \in loop_pass_outcomes : o.st.issued # <<>>

\* The ids of the id-carrying message frames a pass's trace holds.
IdsDecoded(tr) ==
    {log[tr[i].arg].id : i \in {j \in DOMAIN tr : tr[j].ev = "frame"}} \ {NoneId}

\* C15 as stated: a call of poll_next that does not yield Ok(item) leaves
\* the cursor as it was.
C15_CursorOnlyOnOk ==
    (pc = "idle" /\ result.kind \in {"Pending", "Err", "Panic"}) =>
        last_id = cursorAtCall

\* C15, amended: the cursor changes only in a pass of poll_next in which the
\* decoder hands over a message frame that carries an id, whatever its name
\* and whether or not its payload deserializes, and it becomes that id; a
\* pass that decodes no id-carrying frame leaves the cursor as it was, so a
\* call none of whose passes decodes one does.
C15_CursorOnlyOnIdFrame ==
    [][/\ IdsDecoded(trace') = {} => last_id' = last_id
       /\ last_id' # last_id => last_id' \in IdsDecoded(trace')]_vars

\* A frame named "foo" moved the cursor in a call that yielded nothing.
C15_Witness ==
    /\ pc = "idle" /\ result = Pending
    /\ last_id # NoneId /\ cursorAtCall # last_id
    /\ ~firstPass /\ prevEv.ev = "frame"
    /\ log[prevEv.arg].name = "foo"
    /\ log[prevEv.arg].id = last_id

\* C16. The cursor is None as long as no decoder has handed over a message
\* frame that carries an id, and otherwise it is the id of the latest such
\* frame, whatever that frame's event name; so once it is set, no outcome of
\* a poll (clean close, transport error, decode error, reconnect) makes it
\* None again, and every request is built from it.
C16_CursorInvariant ==
    /\ last_id = lastIdSeen
    /\ (\E p \in Positions : yielded[p] > 0 /\ log[p].id # NoneId) => last_id # NoneId
    /\ \A i \in DOMAIN issued : issued[i].cursor = issued[i].seen
    /\ \A i \in DOMAIN trace :
          trace[i].ev \in {"closed", "dec_error", "resp_error",
                           "resp_pending", "dec_pending"} =>
              /\ trace[i].arg = last_id
              /\ trace[i].arg = lastIdSeen

\* The cursor is the id of a frame named "foo", and has outlived a decode
\* error or a transport error.
C16_Witness ==
    /\ last_id # NoneId
    /\ \E p \in Positions : log[p].name = "foo" /\ log[p].id = last_id
    /\ result.kind = "Err" /\ result.err \in {"SSEDecoderError", "HyperError"}

ResponseEvents == {"resp", "resp_pending", "resp_error"}
DecoderEvents == {"frame", "dec_pending", "closed", "dec_error"}

\* C17. At every moment the stream holds at most one of a pending response
\* and a decoder. A request is issued only while it holds neither: as the
\* first thing of a call that found neither, or, inside a call, in the pass
\* right after the decoder was dropped on a clean close; the request's
\* response future is what is polled next. A response is turned into a
\* decoder only right after its request or as the first thing of a call
\* that found it pending, so a response future gives at most one decoder.
\* What a pass does first is what the stream held before it: a request with
\* neither, a poll of the response with a response, of the decoder with a
\* decoder.
C17_ConnectionExclusive ==
    /\ [](~(response.some /\ decoder.some))
    /\ [](Len(issued) <= 1)
    /\ [](\A i \in DOMAIN trace :
            /\ trace[i].ev = "req" =>
                  /\ i = 1 /\ Len(issued) = 1
                  /\ firstPass \/ prevEv.ev = "closed"
                  /\ i < Len(trace) /\ trace[i + 1].ev \in ResponseEvents
            /\ trace[i].ev \in ResponseEvents =>
                  IF i > 1 THEN trace[i - 1].ev = "req" ELSE firstPass
            /\ (trace[i].ev = "resp" /\ i < Len(trace)) =>
                  (i + 1 = Len(trace) /\ trace[i + 1].ev \in DecoderEvents)
            /\ trace[i].ev \in DecoderEvents => i = Len(trace))
    /\ [][(pc # "blocked" /\ trace' # <<>>) =>
            /\ trace'[1].ev = "req" => (~response.some /\ ~decoder.some)
            /\ trace'[1].ev \in ResponseEvents => (response.some /\ ~decoder.some)
            /\ trace'[1].ev \in DecoderEvents => (decoder.some /\ ~response.some)]_vars

\* A call that found a decoder saw the connection close, and in its next
\* pass issued the one new request and left with its response pending.
C17_Witness ==
    /\ ~firstPass /\ prevEv.ev = "closed"
    /\ Len(trace) = 2
    /\ trace[1].ev = "req" /\ trace[2].ev = "resp_pending"
    /\ response.some /\ ~decoder.some
    /\ Len(issued) = 1
    /\ result = Pending

\* C18, amended. Suspension keeps the state. A call that returns not-ready
\* because the response has not arrived leaves that response in the stream,
\* no decoder, and the cursor as it was; the next call begins by polling this
\* response and issues no request in that pass: it issues one only after the
\* connection of that response has closed cleanly. A call that returns not-ready
\* because the decoder has no complete frame leaves that decoder in the
\* stream, at the frame after the last one it handed over, and the cursor as
\* it was; the next call begins by polling this decoder and issues no request
\* unless that connection closes (inside a call a request follows a clean
\* close only). A call that finds the stream suspended and suspends again at
\* once changes nothing.
C18_SuspensionKeepsState ==
    /\ [](result = Pending =>
            LET n == Len(trace)
            IN  /\ pc = "idle"
                /\ n > 0 /\ trace[n].ev \in {"resp_pending", "dec_pending"}
                /\ trace[n].arg = last_id
                /\ trace[n].ev = "resp_pending" =>
                      /\ response.some /\ ~decoder.some
                      /\ n > 1 => (trace[n - 1].ev = "req"
                                    /\ response.req = Last(issued).req)
                      /\ \A o \in loop_pass_outcomes :
                            /\ o.st.trace[1].ev \in ResponseEvents
                            /\ o.st.issued = <<>>
                /\ trace[n].ev = "dec_pending" =>
                      /\ decoder.some /\ ~response.some
                      /\ (n = 1 /\ prevEv.ev = "frame") =>
                            decoder.next = prevEv.arg + 1
                      /\ (n > 1 /\ trace[n - 1].ev = "resp") =>
                            decoder.next = ResumePos(log, lastIdSeen)
                      /\ \A o \in loop_pass_outcomes :
                            /\ o.st.trace[1].ev \in DecoderEvents
                            /\ o.st.trace[1].ev = "frame" =>
                                  o.st.trace[1].arg = decoder.next
                            /\ o.st.issued = <<>>)
    /\ []((issued # <<>> /\ ~firstPass) => prevEv.ev = "closed")
    /\ [][(pc = "idle" /\ result' = Pending /\ Len(trace') = 1) =>
            /\ response' = response /\ decoder' = decoder
            /\ last_id' = last_id /\ issued' = <<>>]_vars

\* C18, the clause "no new request issued by the next poll" as stated: a
\* call that found a pending response issues no request, in none of its
\* passes.
C18_NoRequestInNextPoll == heldAtCall = "response" => issued = <<>>

\* A call found a pending response; the response arrived, its connection
\* closed cleanly, and the call issued the next request and suspended on it.
C18_Witness ==
    /\ heldAtCall = "response"
    /\ ~firstPass /\ prevEv.ev = "closed"
    /\ Len(issued) = 1
    /\ trace = <<Ev("req", 1), Ev("resp_pending", last_id)>>
    /\ result = Pending /\ response.some /\ ~decoder.some

\* C19 as stated (checked under SpecStep): every call of poll_next returns;
\* whatever the transport and the server do, a call that is running makes
\* finitely many passes through its loop before it yields an item or reports
\* not-ready.
C19_EveryCallReturns == (pc = "running") ~> (pc = "idle")

\* A call has just yielded the deserialization error of the frame at its
\* result's position: the frame is a "message" frame and the last thing the
\* call decoded, the decoder is kept at the frame that follows, no response
\* is pending, the cursor is the frame's id when it has one and is otherwise
\* as it was, and the next call begins by polling the same decoder, which
\* hands over the following frame; its first pass issues no request (inside
\* a call a request follows a clean close only, as C17 and C18 state).
JsonErrorKeepsConnection ==
    (result.kind = "Err" /\ result.err = "JsonError") =>
        LET p == result.pos
        IN  /\ p \in Positions /\ IsMessageEvent(log[p]) /\ ~log[p].json_ok
            /\ Last(trace) = Ev("frame", p)
            /\ decoder = SomeDecoder(p + 1) /\ ~response.some
            /\ log[p].id # NoneId => last_id = log[p].id
            /\ log[p].id = NoneId => last_id = cursorBefore
            /\ pc = "idle"
            /\ \A o \in loop_pass_outcomes :
                  /\ o.st.trace[1].ev \in DecoderEvents
                  /\ o.st.trace[1].ev = "frame" => o.st.trace[1].arg = p + 1
                  /\ o.st.issued = <<>>

\* C20 as stated: a "message" frame whose payload does not deserialize
\* yields one Err item and keeps the connection as above, and a later
\* reconnect resumes after the failed frame: it gets no second item, and
\* every decoder the stream holds from then on stands after it.
C20_JsonErrorResumesAfter ==
    /\ JsonErrorKeepsConnection
    /\ \A p \in Positions :
          (IsMessageEvent(log[p]) /\ ~log[p].json_ok /\ yielded[p] > 0) =>
              /\ yielded[p] = 1
              /\ decoder.some => decoder.next > p

\* C20, amended: as stated for a failed frame that carries an id; a failed
\* frame without an id keeps the connection in the same way, but does not
\* move the cursor, so a later reconnect resumes at or before it.
C20_JsonErrorResumesAfterId ==
    /\ JsonErrorKeepsConnection
    /\ \A p \in Positions :
          (IsMessageEvent(log[p]) /\ ~log[p].json_ok /\ yielded[p] > 0
             /\ log[p].id # NoneId) =>
              /\ yielded[p] = 1
              /\ decoder.some => decoder.next > p
              /\ ~(trace # <<>> /\ Last(trace) = Ev("frame", p)) =>
                    \A i \in DOMAIN issued :
                        ResumePos(log, issued[i].req.last_event_id) > p

\* The frame at position 1 carries an id and failed to deserialize; after a
\* reconnect that carried its id the stream went on with the frame after it.
C20_Witness ==
    /\ IsMessageEvent(log[1]) /\ ~log[1].json_ok /\ log[1].id = 1
    /\ yielded[1] = 1
    /\ prevYield = 1 /\ lastYield = 2 /\ ~sameConn
    /\ \E i \in DOMAIN issued : issued[i].req.last_event_id = 1

\* ===================================================================
\* Properties of the one-shot request (SpecRequest)
\* ===================================================================
\* C10. The outcome of a one-shot request that has returned and whose
\* response arrived: a 2xx
\* status with a body of the declared type gives Ok(value), a 4xx status with
\* a body of the error schema gives Err(HorizonRequestError(payload)), any
\* other status gives Err(HorizonServerError) and the body is not read; the
\* class (which schema the body is read against, or none) is decided by the
\* status code alone.
C10_RequestOutcome ==
    (Returned(req_out) /\ req_in.uri_ok /\ req_in.build_ok /\ req_in.transport_ok) =>
        LET class == req_in.status \div 100
        IN  /\ req_out.sent = 1
            /\ (class = 2 /\ req_in.body_ok /\ req_in.body = "resource") =>
                  (req_out.kind = "Ok" /\ req_out.payload = req_in.body)
            /\ (class = 4 /\ req_in.body_ok /\ req_in.body = "horizon_error") =>
                  /\ req_out.kind = "Err"
                  /\ req_out.err = "HorizonRequestError"
                  /\ req_out.payload = req_in.body
            /\ (class \notin {2, 4}) =>
                  /\ req_out.kind = "Err"
                  /\ req_out.err = "HorizonServerError"
                  /\ ~req_out.body_read
            /\ req_out.body_read <=> (class \in {2, 4})
            /\ req_out.kind = "Ok" => class = 2
            /\ req_out.err = "HorizonRequestError" => class = 4
            /\ req_out.err = "HorizonServerError" <=> (class \notin {2, 4})

\* A 503 answer whose body would have decoded as the error schema.
C10_Witness ==
    /\ Returned(req_out)
    /\ req_in.status = 503 /\ req_in.body = "horizon_error" /\ req_in.body_ok
    /\ req_out.err = "HorizonServerError"

\* C11. A call of execute_request sends at most one HTTP request, and
\* exactly one when the uri resolves and the request builds: its method is
\* POST exactly when is_post() is true and GET otherwise, its body is empty
\* and it carries X-Client-Name and X-Client-Version. When the uri does not
\* resolve or the request does not build, the call fails with that error and
\* nothing is sent.
C11_RequestConstruction ==
    req_out.called =>
        /\ req_out.sent \in {0, 1}
        /\ req_out.sent = 1 <=> (req_in.uri_ok /\ req_in.build_ok)
        /\ req_out.sent = 1 =>
              /\ req_out.request.method = "POST" <=> req_in.is_post
              /\ req_out.request.method = "GET" <=> ~req_in.is_post
              /\ req_out.request.body = "empty"
              /\ req_out.request.x_client_name
              /\ req_out.request.x_client_version
        /\ ~req_in.uri_ok =>
              /\ req_out.kind = "Err" /\ req_out.err = "InvalidHost"
              /\ req_out.sent = 0 /\ req_out.request = NoRequest
        /\ (req_in.uri_ok /\ ~req_in.build_ok) =>
              /\ req_out.kind = "Err" /\ req_out.err = "HttpError"
              /\ req_out.sent = 0 /\ req_out.request = NoRequest

\* A POST request that was sent, and whose transport then failed.
C11_Witness ==
    /\ Returned(req_out) /\ req_in.is_post
    /\ req_out.sent = 1 /\ req_out.request.method = "POST"
    /\ req_out.err = "HyperError"

====
